---- MODULE Spec2Model ----
(***************************************************************************)
(* Model of example() in multi_misra_violation.c.                          *)
(*                                                                         *)
(* The function is straight-line code; one action per statement.  32-bit   *)
(* unsigned values are kept as two 16-bit halves [hi, lo] (value =         *)
(* hi * 65536 + lo) so that arithmetic modulo 2^32 stays inside the range  *)
(* of the model checker's integers.  int is taken to be 32 bits wide, so   *)
(* uint32_t is unsigned int and int8_t promotes to int.                    *)
(***************************************************************************)
EXTENDS Integers, Sequences, FiniteSets, TLC

\* Bound: pointer values range over 0..MaxPtr (an uninitialised pointer may
\* hold any of them).
MaxPtr == 5

PtrVals == 0..MaxPtr

\* Radix of one half of a 32-bit value.
Half == 65536

\* sizeof buffer
BufSize == 100

\* Marker for a byte of the buffer that has never been written.
Indet == "indet"

\* The terminating null character.
NUL == "\\0"

(***************************************************************************)
(* Integer conversions                                                     *)
(***************************************************************************)

\* Conversion of an int8_t to int (integer promotion): value preserving.
PromoteInt8(v) == v

\* A wrong conversion: negative values clamp to zero instead of wrapping.
ToU32Clamp(v) ==
    IF v < 0 THEN [hi |-> 0, lo |-> 0]
             ELSE [hi |-> (v \div Half) % Half, lo |-> v % Half]

\* Conversion of an int to uint32_t: the value modulo 2^32.
ToU32(v) == [hi |-> (v \div Half) % Half, lo |-> v % Half]

\* x > y on uint32_t operands.
UGt(x, y) == x.hi > y.hi \/ (x.hi = y.hi /\ x.lo > y.lo)

(***************************************************************************)
(* Formatting for sprintf(buffer, "Value: %u", a)                          *)
(***************************************************************************)

IsZeroU32(x) == x.hi = 0 /\ x.lo = 0

\* x divided by 10, by long division over the two halves.
Div10(x) ==
    LET r == x.hi % 10
    IN  [hi |-> x.hi \div 10, lo |-> (r * Half + x.lo) \div 10]

\* x modulo 10.
Mod10(x) == ((x.hi % 10) * Half + x.lo) % 10

DigitChar(d) == <<"0", "1", "2", "3", "4", "5", "6", "7", "8", "9">>[d + 1]

RECURSIVE UDigits(_)
\* The decimal digits of x, most significant first ("%u").
UDigits(x) ==
    IF IsZeroU32(Div10(x)) THEN <<DigitChar(Mod10(x))>>
    ELSE Append(UDigits(Div10(x)), DigitChar(Mod10(x)))

\* The literal part of the format string "Value: %u".
FormatPrefix == <<"V", "a", "l", "u", "e", ":", " ">>

\* The characters sprintf produces, without the terminator.
Formatted(x) == FormatPrefix \o UDigits(x)

(***************************************************************************)
(* State                                                                   *)
(***************************************************************************)

VARIABLES
    pc,       \* the statement example() executes next
    a,        \* uint32_t a
    b,        \* int8_t b
    lhs,      \* left operand of a > b after the usual arithmetic conversions
    rhs,      \* right operand of a > b after the usual arithmetic conversions
    cond,     \* value of a > b, i.e. whether the body of the if is entered
    ptr,      \* void* ptr
    iptr,     \* int* iptr
    buffer,   \* char buffer[100]
    written   \* return value of sprintf (discarded by the code)

vars == <<pc, a, b, lhs, rhs, cond, ptr, iptr, buffer, written>>

\* A variable whose declaration has not been reached yet.
None == "none"

Init ==
    /\ pc = "init_a"
    /\ a = None /\ b = None
    /\ lhs = None /\ rhs = None /\ cond = None
    /\ ptr = None /\ iptr = None
    /\ buffer = None
    /\ written = None

\* uint32_t a = 1000;
InitA ==
    /\ pc = "init_a"
    /\ a' = ToU32(1000)
    /\ pc' = "init_b"
    /\ UNCHANGED <<b, lhs, rhs, cond, ptr, iptr, buffer, written>>

\* int8_t b = -1;
InitB ==
    /\ pc = "init_b"
    /\ b' = -1
    /\ pc' = "if_cmp"
    /\ UNCHANGED <<a, lhs, rhs, cond, ptr, iptr, buffer, written>>

\* if (a > b) { }   -- the body holds a comment only
IfCompare ==
    /\ pc = "if_cmp"
    /\ lhs' = a
    /\ rhs' = ToU32(PromoteInt8(b))
    /\ cond' = UGt(lhs', rhs')
    /\ pc' = "decl_ptr"
    /\ UNCHANGED <<a, b, ptr, iptr, buffer, written>>

\* void* ptr;   -- no initialiser: the value is indeterminate
DeclPtr ==
    /\ pc = "decl_ptr"
    /\ \E v \in PtrVals : ptr' = v
    /\ pc' = "cast"
    /\ UNCHANGED <<a, b, lhs, rhs, cond, iptr, buffer, written>>

\* int* iptr = (int*)ptr;   -- reads the indeterminate ptr: any value results
CastPtr ==
    /\ pc = "cast"
    /\ \E v \in PtrVals : iptr' = v
    /\ pc' = "decl_buffer"
    /\ UNCHANGED <<a, b, lhs, rhs, cond, ptr, buffer, written>>

\* char buffer[100];
DeclBuffer ==
    /\ pc = "decl_buffer"
    /\ buffer' = [i \in 1..BufSize |-> Indet]
    /\ pc' = "sprintf"
    /\ UNCHANGED <<a, b, lhs, rhs, cond, ptr, iptr, written>>

\* sprintf(buffer, "Value: %u", a);
Sprintf ==
    /\ pc = "sprintf"
    /\ LET out == Formatted(a)
       IN  /\ Len(out) + 1 <= BufSize
           /\ buffer' = [i \in 1..BufSize |->
                            IF i <= Len(out) THEN out[i]
                            ELSE IF i = Len(out) + 1 THEN NUL
                            ELSE buffer[i]]
           /\ written' = Len(out)
    /\ pc' = "done"
    /\ UNCHANGED <<a, b, lhs, rhs, cond, ptr, iptr>>

Next ==
    \/ InitA
    \/ InitB
    \/ IfCompare
    \/ DeclPtr
    \/ CastPtr
    \/ DeclBuffer
    \/ Sprintf

Spec == Init /\ [][Next]_vars

(***************************************************************************)
(* Properties                                                              *)
(***************************************************************************)

\* The statements after the if statement.
AfterIf == {"decl_ptr", "cast", "decl_buffer", "sprintf", "done"}

\* 2^32 - 1 = 4294967295 = 65535 * 65536 + 65535
AllOnes32 == [hi |-> Half - 1, lo |-> Half - 1]

\* C10: once example() has evaluated `a > b`, a is 1000 and b is -1, the right
\* operand was converted to the 32-bit unsigned value 4294967295 (-1 mod
\* 2^32), the condition is false so the body of the if is not entered,
\* although a > b holds for the mathematical values.
C10_CompareIsFalse ==
    pc \in AfterIf =>
        /\ a = [hi |-> 0, lo |-> 1000]
        /\ b = -1
        /\ lhs = a
        /\ rhs = AllOnes32
        /\ cond = FALSE
        /\ a.hi * Half + a.lo > b

\* A run of example() that got to the end, with the comparison evaluated on
\* the converted operands.
C10_Witness ==
    /\ pc = "done"
    /\ rhs = AllOnes32
    /\ cond = FALSE
    /\ b = -1

====
